---- MODULE Spec2Model ----
(***************************************************************************)
(* A model of rust-chain: the sled-backed block store with its tip marker, *)
(* proof-of-work mining, the UTXO scans and transfers, and the wallet      *)
(* address codec.                                                          *)
(*                                                                         *)
(* Byte strings (ByteBuf, String, sled keys) are sequences.  Option<T> is  *)
(* a sequence of length 0 (None) or 1 (Some).  A SHA-256 digest of chain   *)
(* data is the pair <<preimage, integer>>: the preimage makes the digest   *)
(* collision free, the integer is the digest read as a big-endian number,  *)
(* scaled to SHA_BITS bits.  The address codec works on concrete bytes     *)
(* (0..255), because base-58 is arithmetic on them.                        *)
(***************************************************************************)
EXTENDS Integers, Sequences, FiniteSets, TLC

VARIABLES
    db,           \* the "blocks" tree of the sled store: key -> value
    tip,          \* Blockchain.tip of the open handle
    opened,       \* whether a Blockchain handle exists
    walletsFile,  \* wallets.dat: <<>> when the file is absent, else <<serialized map>>
    genesis,      \* history: "none" | "failed" | "mined", since the store was last empty
    appendLog,    \* history: hashes of the blocks persisted since the store was last empty
    lastOp,       \* history: the last operation, its arguments and its result
    writer,       \* the add_block calls under way, one per writer, step by step
    saver,        \* the save_wallet calls under way, one per saver, step by step
    codec,        \* the wallet and the output of an address round trip
    miner         \* the block of a Block::new call under way, and what run found

vars == <<db, tip, opened, walletsFile, genesis, appendLog, lastOp, writer, saver, codec,
          miner>>

\* the state of the calls that are followed step by step
steps == <<writer, saver, codec, miner>>

-----------------------------------------------------------------------------
(* Bounds of the model *)

\* the wallets of the address round trip have the public keys <<4, 0>> .. <<4, MaxKey>>
MaxKey == 120

\* stands for u64::MAX, the end of the nonce search
U64_MAX == 2
\* stands for the 256 bits of a SHA-256 digest
SHA_BITS == 3
\* stands for the 24 leading zero bits of the difficulty
TARGET_BITS == 1
\* no block is built once the store holds this many blocks
MaxBlocks == 3

\* SystemTime::now() as seen by Block::new
Timestamps == {0, 3}
\* the key pairs Wallet::new can draw
Keys == {1, 2}
\* the values a transfer is asked to move
Values == {3, 10, 15}

(* Program constants *)
SUBSIDY == 10
CHECKSUM_LEN == 4
VERSION == <<0>>
GENESIS_COINBASE == <<84, 104, 101>>
TipKey == <<108>>

None == <<>>
Some(x) == <<x>>
EmptyBuf == <<>>

RECURSIVE Pow2(_)
Pow2(n) == IF n = 0 THEN 1 ELSE 2 * Pow2(n - 1)

RECURSIVE SumSeq(_)
SumSeq(s) == IF s = <<>> THEN 0 ELSE Head(s) + SumSeq(Tail(s))

RECURSIVE Concat(_)
Concat(ss) == IF ss = <<>> THEN <<>> ELSE Head(ss) \o Concat(Tail(ss))

Reverse(s) == [i \in 1..Len(s) |-> s[Len(s) + 1 - i]]

Range(s) == {s[i] : i \in 1..Len(s)}

-----------------------------------------------------------------------------
(* Wallet and address codec: wallet.rs, transaction.rs *)

\* digests of concrete bytes: a position-weighted byte sum, spread over len bytes
ByteMix(s) == SumSeq([i \in 1..Len(s) |-> i * s[i]])
ByteDigest(s, salt, len) == [i \in 1..len |-> (ByteMix(s) * (2 * i + salt) + 31 * i) % 256]
Sha256Bytes(s) == ByteDigest(s, 1, 4)
Ripemd160Bytes(s) == ByteDigest(s, 5, 2)

\* BITCOIN alphabet: 1-9, A-H, J-N, P-Z, a-k, m-z
Span(a, b) == [i \in 1..(b - a + 1) |-> a + i - 1]
Alphabet == Span(49, 57) \o Span(65, 72) \o Span(74, 78) \o Span(80, 90)
            \o Span(97, 107) \o Span(109, 122)

\* one step of the base conversion over little-endian digits
RECURSIVE MulAdd(_, _, _, _)
MulAdd(ds, carry, mul, base) ==
    IF ds = <<>>
    THEN IF carry = 0 THEN <<>>
         ELSE <<carry % base>> \o MulAdd(<<>>, carry \div base, mul, base)
    ELSE LET c == carry + Head(ds) * mul
         IN  <<c % base>> \o MulAdd(Tail(ds), c \div base, mul, base)

RECURSIVE Convert(_, _, _, _)
Convert(input, acc, mul, base) ==
    IF input = <<>> THEN acc
    ELSE Convert(Tail(input), MulAdd(acc, Head(input), mul, base), mul, base)

RECURSIVE LeadingCount(_, _)
LeadingCount(s, z) ==
    IF s # <<>> /\ Head(s) = z THEN 1 + LeadingCount(Tail(s), z) ELSE 0

Base58Encode(bytes) ==
    LET digits == Convert(bytes, <<>>, 256, 58)
        zeros  == [i \in 1..LeadingCount(bytes, 0) |-> 0]
        le     == digits \o zeros
    IN  Reverse([i \in 1..Len(le) |-> Alphabet[le[i] + 1]])

AlphaIndex(c) == CHOOSE i \in 1..Len(Alphabet) : Alphabet[i] = c

\* None when a character is outside the alphabet
Base58Decode(str) ==
    IF \E i \in 1..Len(str) : str[i] \notin Range(Alphabet) THEN None
    ELSE LET vals  == [i \in 1..Len(str) |-> AlphaIndex(str[i]) - 1]
             bytes == Convert(vals, <<>>, 58, 256)
             zeros == [i \in 1..LeadingCount(str, Alphabet[1]) |-> 0]
         IN  Some(Reverse(bytes \o zeros))

PublicKey(k) == <<4, k>>
PrivateKey(k) == <<k>>
NewWallet(k) == [public_key |-> PublicKey(k), private_key |-> PrivateKey(k)]

hash_pub_key(public_key) == Ripemd160Bytes(Sha256Bytes(public_key))

address(wallet) ==
    LET hash_pub  == hash_pub_key(wallet.public_key)
        versioned == VERSION \o hash_pub
        checksum  == Sha256Bytes(Sha256Bytes(versioned))
    IN  Base58Encode(versioned \o SubSeq(checksum, 1, CHECKSUM_LEN))

\* the addresses and public-key hashes of the model's wallets, computed once
AddressOf == [k \in Keys |-> address(NewWallet(k))]
Addresses == {AddressOf[k] : k \in Keys}
Owners == {hash_pub_key(PublicKey(k)) : k \in Keys}

\* mutant: one byte of the checksum is left on the hash
StripAddress_short(dec) ==
    IF dec = None \/ Len(dec[1]) < 1 + CHECKSUM_LEN THEN None
    ELSE Some(SubSeq(dec[1], 2, Len(dec[1]) - CHECKSUM_LEN + 1))

\* TXOutput::lock: None when the address does not decode or is too short
StripAddress(dec) ==
    IF dec = None \/ Len(dec[1]) < 1 + CHECKSUM_LEN THEN None
    ELSE Some(SubSeq(dec[1], 2, Len(dec[1]) - CHECKSUM_LEN))

LockHash(addr) == StripAddress(Base58Decode(addr))

is_locked_with(out, pub_key_hash) == out.pub_key_hash = pub_key_hash

uses_key(in, pub_key_hash) == hash_pub_key(in.pub_key) = pub_key_hash

-----------------------------------------------------------------------------
(* Serialization (bincode) and SHA-256 of chain data *)

\* A serialized buffer: its content, and the sum of its bytes that the scaled
\* digest integer is computed from.
Buffer(bytes, sum) == [bytes |-> bytes, sum |-> sum]

\* the byte sum of a digest-or-empty byte string
BufSum(b) == IF b = EmptyBuf THEN 0 ELSE b[2]
\* the byte sum of an Option<ByteBuf>: the tag, then the bytes
OptBufSum(o) == IF o = None THEN 0 ELSE 1 + BufSum(o[1])
OptIntSum(o) == IF o = None THEN 0 ELSE 1 + o[1]

SerOutput(o) == <<o.value, o.pub_key_hash>>
DeOutput(t) == [value |-> t[1], pub_key_hash |-> t[2]]
OutputSum(o) == o.value + SumSeq(o.pub_key_hash)

SerInput(i) == <<i.txid, i.vout, i.signature, i.pub_key>>
DeInput(t) == [txid |-> t[1], vout |-> t[2], signature |-> t[3], pub_key |-> t[4]]
InputSum(i) == BufSum(i.txid) + OptIntSum(i.vout) + SumSeq(i.signature) + SumSeq(i.pub_key)

SerTx(tx) ==
    <<tx.id, [i \in 1..Len(tx.vin) |-> SerInput(tx.vin[i])],
      [i \in 1..Len(tx.vout) |-> SerOutput(tx.vout[i])]>>
DeTx(t) ==
    [id |-> t[1], vin |-> [i \in 1..Len(t[2]) |-> DeInput(t[2][i])],
     vout |-> [i \in 1..Len(t[3]) |-> DeOutput(t[3][i])]]
TxSum(tx) ==
    BufSum(tx.id) + SumSeq([i \in 1..Len(tx.vin) |-> InputSum(tx.vin[i])])
    + SumSeq([i \in 1..Len(tx.vout) |-> OutputSum(tx.vout[i])])

SerializeTx(tx) == Buffer(SerTx(tx), TxSum(tx))

SerBlock(b) ==
    <<b.timestamp, [i \in 1..Len(b.transactions) |-> SerTx(b.transactions[i])],
      b.previous_block_hash, b.hash, b.nonce>>
BlockSum(b) ==
    b.timestamp + SumSeq([i \in 1..Len(b.transactions) |-> TxSum(b.transactions[i])])
    + OptBufSum(b.previous_block_hash) + OptBufSum(b.hash) + OptIntSum(b.nonce)

SerializeBlock(b) == Buffer(SerBlock(b), BlockSum(b))
DeserializeBlock(buf) ==
    [timestamp |-> buf.bytes[1],
     transactions |-> [i \in 1..Len(buf.bytes[2]) |-> DeTx(buf.bytes[2][i])],
     previous_block_hash |-> buf.bytes[3],
     hash |-> buf.bytes[4],
     nonce |-> buf.bytes[5]]

\* Sha256::new().chain_update(data).finalize()
Sha256(buf) == <<buf.bytes, buf.sum % Pow2(SHA_BITS)>>
\* BigUint::from_bytes_be(hash)
HashInt(hash) == hash[2]

-----------------------------------------------------------------------------
(* Proof of work: pow.rs *)

\* ProofOfWork::new: 1 << (SHA_BITS - TARGET_BITS)
Target == Pow2(SHA_BITS - TARGET_BITS)

AppendBits(ser, nonce) ==
    Buffer(ser.bytes \o <<TARGET_BITS, nonce>>, ser.sum + TARGET_BITS + nonce)

prepare_data(block, nonce) == AppendBits(SerializeBlock(block), nonce)

\* the loop of run from `nonce` on; `hash` is the digest for `nonce`
RECURSIVE RunFrom(_, _)
TryNonce(block, nonce, hash) ==
    IF HashInt(hash) < Target THEN Some(<<nonce, hash>>)
    ELSE RunFrom(block, nonce + 1)

RunFrom(block, nonce) ==
    IF ~(nonce < U64_MAX) THEN None
    ELSE TryNonce(block, nonce, Sha256(prepare_data(block, nonce)))

\* mutant: the search starts at nonce 1
run_from_one(block) == RunFrom(block, 1)

run(block) == RunFrom(block, 0)

validate(block) ==
    IF block.nonce # None
    THEN HashInt(Sha256(prepare_data(block, block.nonce[1]))) < Target
    ELSE FALSE

-----------------------------------------------------------------------------
(* Block: block.rs *)

\* mutant: only the hash is set
Seal_hash_only(block, mined) ==
    IF mined # None
    THEN [block EXCEPT !.hash = Some(mined[1][2])]
    ELSE block

Seal(block, mined) ==
    IF mined # None
    THEN [block EXCEPT !.hash = Some(mined[1][2]), !.nonce = Some(mined[1][1])]
    ELSE block

Unmined(timestamp, transactions, previous_block_hash) ==
    [timestamp |-> timestamp, transactions |-> transactions,
     previous_block_hash |-> previous_block_hash, hash |-> None, nonce |-> None]

MineBlock(block) == Seal(block, run(block))

NewBlock(timestamp, transactions, previous_block_hash) ==
    MineBlock(Unmined(timestamp, transactions, previous_block_hash))

-----------------------------------------------------------------------------
(* Transactions: transaction.rs *)

set_id(tx) == [tx EXCEPT !.id = Sha256(SerializeTx([tx EXCEPT !.id = EmptyBuf]))]

is_coinbase(tx) ==
    Len(tx.vin) = 1 /\ Len(tx.vin[1].txid) = 0 /\ tx.vin[1].vout = None

CoinbaseLocked(lock, data) ==
    IF lock = None THEN None
    ELSE Some(set_id([id |-> EmptyBuf,
                      vin |-> <<[txid |-> EmptyBuf, vout |-> None,
                                 signature |-> EmptyBuf, pub_key |-> data]>>,
                      vout |-> <<[value |-> SUBSIDY, pub_key_hash |-> lock[1]]>>]))

\* None when locking the output to `to` panics
new_coinbase_tx(to, data) == CoinbaseLocked(LockHash(to), data)

-----------------------------------------------------------------------------
(* Chain store and UTXO scans: blockchain.rs *)

BlockKeys(d) == DOMAIN d \ {TipKey}

\* blocks.get(b"l")
LastHash(d) == IF TipKey \in DOMAIN d THEN Some(d[TipKey]) ELSE None

\* mutant: the cursor does not follow the previous-hash link
Yield_stop(block) == [item |-> Some(block), tip |-> EmptyBuf]

Yield(block) ==
    [item |-> Some(block),
     tip  |-> IF block.previous_block_hash # None
              THEN block.previous_block_hash[1]
              ELSE EmptyBuf]

\* Iterator::next on a handle whose tip is t: the item and the tip it leaves
next(t, d) ==
    IF t \in DOMAIN d THEN Yield(DeserializeBlock(d[t]))
    ELSE [item |-> None, tip |-> t]

\* `for block in self`: next until it returns None
RECURSIVE Iterate(_, _)
Prepend(block, rest) == [blocks |-> <<block>> \o rest.blocks, tip |-> rest.tip]

Continue(t, d, step) ==
    IF step.item = None THEN [blocks |-> <<>>, tip |-> t]
    ELSE Prepend(step.item[1], Iterate(step.tip, d))

Iterate(t, d) == Continue(t, d, next(t, d))

\* the outputs loop of find_unspent_txs for one transaction (idx counts from 0):
\* the transaction is pushed once per output that is not recorded spent and is
\* locked to the owner
RECURSIVE UnspentPushes(_, _, _, _)
UnspentPushes(tx, idx, spent_txos, owner) ==
    IF idx >= Len(tx.vout) THEN <<>>
    ELSE (IF <<tx.id, idx>> \notin spent_txos /\ is_locked_with(tx.vout[idx + 1], owner)
          THEN <<tx>> ELSE <<>>)
         \o UnspentPushes(tx, idx + 1, spent_txos, owner)

\* the inputs loop: the (txid, index) pairs the transaction's inputs record as spent
SpentBy(tx, owner) ==
    IF is_coinbase(tx) THEN {}
    ELSE {<<tx.vin[i].txid, tx.vin[i].vout[1]>> :
             i \in {j \in 1..Len(tx.vin) : uses_key(tx.vin[j], owner)}}

\* the transactions of a block that the scan visits: the loop over them breaks
\* after the first when the previous hash is present and empty
TxsScanned(block) ==
    IF /\ block.previous_block_hash # None
       /\ Len(block.previous_block_hash[1]) = 0
       /\ Len(block.transactions) > 1
    THEN <<block.transactions[1]>>
    ELSE block.transactions

ScanTx(tx, acc, owner) ==
    [unspent_txs |-> acc.unspent_txs \o UnspentPushes(tx, 0, acc.spent_txos, owner),
     spent_txos  |-> acc.spent_txos \cup SpentBy(tx, owner)]

RECURSIVE ScanTxs(_, _, _)
ScanTxs(txs, acc, owner) ==
    IF txs = <<>> THEN acc
    ELSE ScanTxs(Tail(txs), ScanTx(Head(txs), acc, owner), owner)

RECURSIVE ScanBlocks(_, _, _)
ScanBlocks(blocks, acc, owner) ==
    IF blocks = <<>> THEN acc
    ELSE ScanBlocks(Tail(blocks), ScanTxs(TxsScanned(Head(blocks)), acc, owner), owner)

find_unspent_txs(t, d, owner) ==
    ScanBlocks(Iterate(t, d).blocks, [unspent_txs |-> <<>>, spent_txos |-> {}],
               owner).unspent_txs

\* the outputs of one transaction that are locked to the owner, in order
LockedOutputs(tx, owner) ==
    SelectSeq(tx.vout, LAMBDA o : is_locked_with(o, owner))

\* flat_map(vout).filter(can be unlocked)
FlattenLocked(unspent, owner) ==
    Concat([i \in 1..Len(unspent) |-> LockedOutputs(unspent[i], owner)])

find_utxo(t, d, owner) == FlattenLocked(find_unspent_txs(t, d, owner), owner)

SumValues(outs) == SumSeq([i \in 1..Len(outs) |-> outs[i].value])

balance_at(t, d, owner) == SumValues(find_utxo(t, d, owner))

\* the (txid, index, value) candidates find_spendable_outputs walks, in its order
RECURSIVE TxCandidates(_, _, _)
TxCandidates(tx, idx, owner) ==
    IF idx >= Len(tx.vout) THEN <<>>
    ELSE (IF is_locked_with(tx.vout[idx + 1], owner)
          THEN <<[txid |-> tx.id, idx |-> idx, value |-> tx.vout[idx + 1].value]>>
          ELSE <<>>)
         \o TxCandidates(tx, idx + 1, owner)

Candidates(unspent_tx, owner) ==
    Concat([i \in 1..Len(unspent_tx) |-> TxCandidates(unspent_tx[i], 0, owner)])

\* a candidate is taken while all < value; the loops break once all >= value
RECURSIVE Accumulate(_, _, _)
Accumulate(cands, all, value) ==
    IF cands = <<>> \/ ~(all < value) THEN <<>>
    ELSE <<Head(cands)>> \o Accumulate(Tail(cands), all + Head(cands).value, value)

\* the indices pushed for one txid, in push order
IndicesOf(taken, id) ==
    LET mine == SelectSeq(taken, LAMBDA c : c.txid = id)
    IN  [i \in 1..Len(mine) |-> mine[i].idx]

\* (all, unspent_outputs): the map gives, for each txid, its indices as pushed
Selected(taken) ==
    [all |-> SumValues(taken),
     unspent_outputs |-> [id \in {taken[i].txid : i \in 1..Len(taken)} |->
                             IndicesOf(taken, id)]]

find_spendable_outputs(t, d, owner, value) ==
    Selected(Accumulate(Candidates(find_unspent_txs(t, d, owner), owner), 0, value))

-----------------------------------------------------------------------------
(* Wallet registry: wallet.rs *)

SerializeWallets(map) ==
    {<<a, <<map[a].public_key, map[a].private_key>>>> : a \in DOMAIN map}

WalletAt(ser, a) ==
    LET e == CHOOSE x \in ser : x[1] = a
    IN  [public_key |-> e[2][1], private_key |-> e[2][2]]

DeserializeWallets(ser) == [a \in {e[1] : e \in ser} |-> WalletAt(ser, a)]

\* fetch_wallets: the empty map when the file cannot be opened
fetch_wallets(file) ==
    IF file = None THEN [a \in {} |-> None] ELSE DeserializeWallets(file[1])

\* mutant: the wallet is put into a new map instead of the fetched one
Insert_alone(wallets, wallet_addr, wallet) == [a \in {wallet_addr} |-> wallet]

Insert(wallets, wallet_addr, wallet) ==
    [a \in DOMAIN wallets \cup {wallet_addr} |->
        IF a = wallet_addr THEN wallet ELSE wallets[a]]

save_wallet(file, wallet) ==
    Some(SerializeWallets(Insert(fetch_wallets(file), address(wallet), wallet)))

-----------------------------------------------------------------------------
(* Transfers: transaction.rs new_tx *)

\* the orders in which a HashMap with these keys can be walked
Orders(keys) ==
    {o \in [1..Cardinality(keys) -> keys] : \A i, j \in DOMAIN o : o[i] = o[j] => i = j}

\* one input per selected (txid, index), the map walked in `order`
Inputs(valid_outputs, order, public_key) ==
    Concat([k \in 1..Len(order) |->
               [i \in 1..Len(valid_outputs[order[k]]) |->
                   [txid |-> order[k], vout |-> Some(valid_outputs[order[k]][i]),
                    signature |-> EmptyBuf, pub_key |-> public_key]]])

Outputs(value, all, lock_to, lock_from) ==
    <<[value |-> value, pub_key_hash |-> lock_to[1]]>>
    \o IF all > value
       THEN <<[value |-> all - value, pub_key_hash |-> lock_from[1]]>>
       ELSE <<>>

Build(value, all, vin, lock_to, lock_from) ==
    IF lock_to = None \/ (all > value /\ lock_from = None)
    THEN [status |-> "Address could not be decoded to base58!"]
    ELSE [status |-> "ok",
          tx |-> set_id([id |-> EmptyBuf, vin |-> vin,
                         vout |-> Outputs(value, all, lock_to, lock_from)])]

\* mutant: the `all < value` check is missing
Funded_unchecked(to, from, value, wallet, found, order) ==
    Build(value, found.all,
          Inputs(found.unspent_outputs, order, wallet.public_key),
          LockHash(to), LockHash(from))

Funded(to, from, value, wallet, found, order) ==
    IF found.all < value THEN [status |-> "Not enough coins!"]
    ELSE Build(value, found.all,
               Inputs(found.unspent_outputs, order, wallet.public_key),
               LockHash(to), LockHash(from))

Spender(to, from, value, t, d, wallets, order) ==
    IF from \notin DOMAIN wallets THEN [status |-> "Wallet with address not found!"]
    ELSE Funded(to, from, value, wallets[from],
                find_spendable_outputs(t, d, hash_pub_key(wallets[from].public_key), value),
                order)

\* new_tx on a handle whose tip is t, with the map walked in `order`
new_tx(to, from, value, t, d, file, order) ==
    Spender(to, from, value, t, d, fetch_wallets(file), order)

-----------------------------------------------------------------------------
(* The handlers of blockchain.rs as functions of the store and the handle *)

\* mutant: the first insert goes to the marker key, before the block is stored
InsertBlock_at_marker(d, hash, block) ==
    [k \in DOMAIN d \cup {TipKey} |-> IF k = TipKey THEN hash ELSE d[k]]

\* blocks.insert(hash, serialize(block)); blocks.insert(b"l", hash)
InsertBlock(d, hash, block) ==
    [k \in DOMAIN d \cup {hash} |-> IF k = hash THEN SerializeBlock(block) ELSE d[k]]

\* mutant: the marker is written only when the store has none yet
InsertMarker_once(d, hash) ==
    [k \in DOMAIN d \cup {TipKey} |-> IF k = TipKey /\ TipKey \notin DOMAIN d THEN hash ELSE d[k]]

InsertMarker(d, hash) ==
    [k \in DOMAIN d \cup {TipKey} |-> IF k = TipKey THEN hash ELSE d[k]]

Insertions(d, hash, block) == InsertMarker(InsertBlock(d, hash, block), hash)

\* mutant: the block is serialized as it was before it was sealed
Persist_unsealed(d, block) ==
    Insertions(d, block.hash[1], [block EXCEPT !.hash = None, !.nonce = None])

Persist(d, block) == Insertions(d, block.hash[1], block)

\* mutant: the tip is assigned outside the `if let`, so a failed mining clears it
Store_resets(d, block, otherwise) ==
    IF block.hash # None
    THEN [db |-> Persist(d, block), tip |-> block.hash[1], mined |-> TRUE]
    ELSE [db |-> d, tip |-> EmptyBuf, mined |-> FALSE]

\* `if let Some(hash) = &block.hash`: persist and take the hash as the tip,
\* else leave the store alone and take `otherwise` as the tip
Store(d, block, otherwise) ==
    IF block.hash # None
    THEN [db |-> Persist(d, block), tip |-> block.hash[1], mined |-> TRUE]
    ELSE [db |-> d, tip |-> otherwise, mined |-> FALSE]

\* mutant: the genesis block is given an empty previous-hash instead of none
Genesis_linked(d, coinbase, timestamp) ==
    IF coinbase = None THEN None
    ELSE Some(Store(d, NewBlock(timestamp, <<coinbase[1]>>, Some(EmptyBuf)), EmptyBuf))

Genesis(d, coinbase, timestamp) ==
    IF coinbase = None THEN None
    ELSE Some(Store(d, NewBlock(timestamp, <<coinbase[1]>>, None), EmptyBuf))

\* mutant: the genesis block is built whether or not the marker is there
new_always(d, address_arg, timestamp) ==
    Genesis(d, new_coinbase_tx(address_arg, GENESIS_COINBASE), timestamp)

\* Blockchain::new: None when building the genesis coinbase panics
new(d, address_arg, timestamp) ==
    IF LastHash(d) # None
    THEN Some([db |-> d, tip |-> LastHash(d)[1], mined |-> FALSE])
    ELSE Genesis(d, new_coinbase_tx(address_arg, GENESIS_COINBASE), timestamp)

\* mutant: the new block is not linked to the last hash
add_block_unlinked(t, d, data, timestamp) == Store(d, NewBlock(timestamp, data, None), t)

add_block(t, d, data, timestamp) == Store(d, NewBlock(timestamp, data, LastHash(d)), t)

\* mutant: the marker key is skipped
remove_blocks_keep_marker(d) == [k \in DOMAIN d \cap {TipKey} |-> d[k]]

\* mutant: only the marker key is removed
remove_blocks_marker_only(d) == [k \in DOMAIN d \ {TipKey} |-> d[k]]

\* mutant: the blocks are removed and the marker is reset to an empty hash
remove_blocks_reset_marker(d) == [k \in {TipKey} |-> EmptyBuf]

\* every key the tree iterator returns is removed; the tip marker is one of them
remove_blocks(d) == [k \in DOMAIN d \ {key : key \in DOMAIN d} |-> d[k]]

-----------------------------------------------------------------------------
(* State machine *)

Op(op, args, res) == [op |-> op, args |-> args, res |-> res]

\* no call is followed step by step
NoWriters == [w \in {} |-> None]
NoSavers == [s \in {} |-> None]
NoCodec == None
NoMiner == None

Init ==
    /\ db = [k \in {} |-> None]
    /\ tip = EmptyBuf
    /\ opened = FALSE
    /\ walletsFile = None
    /\ genesis = "none"
    /\ appendLog = <<>>
    /\ lastOp = Op("init", <<>>, <<>>)
    /\ writer = NoWriters
    /\ saver = NoSavers
    /\ codec = NoCodec
    /\ miner = NoMiner

\* a panic ends the process: the handle is gone, the store is as it was
Panic(op, args, res) ==
    /\ opened' = FALSE
    /\ tip' = EmptyBuf
    /\ lastOp' = Op(op, args, res)
    /\ UNCHANGED <<db, walletsFile, genesis, appendLog, steps>>

\* the store and the handle after a handler that may have persisted a block
Commit(r, op, args) ==
    /\ db' = r.db
    /\ tip' = r.tip
    /\ appendLog' = IF r.mined THEN Append(appendLog, r.tip) ELSE appendLog
    /\ lastOp' = Op(op, args, IF r.mined THEN "appended" ELSE "unmined")

\* main: --create-wallet
CreateWallet(k) ==
    /\ walletsFile' = save_wallet(walletsFile, NewWallet(k))
    /\ lastOp' = Op("save_wallet", <<>>, <<>>)
    /\ UNCHANGED <<db, tip, opened, genesis, appendLog, steps>>

Opened(r, address_arg) ==
    IF r = None THEN Panic("new", <<address_arg, lastOp.op>>,
                           "Address could not be decoded to base58!")
    ELSE /\ db' = r[1].db
         /\ tip' = r[1].tip
         /\ opened' = TRUE
         /\ genesis' = IF LastHash(db) # None THEN genesis
                       ELSE IF r[1].mined THEN "mined" ELSE "failed"
         /\ appendLog' = IF r[1].mined THEN Append(appendLog, r[1].tip) ELSE appendLog
         /\ lastOp' = Op("new", <<address_arg, lastOp.op>>, <<>>)
         /\ UNCHANGED <<walletsFile, steps>>

\* Blockchain::new(address); a handle that exists is dropped first.  The
\* history keeps the address and the operation that the open followed.
Open(address_arg, timestamp) == Opened(new(db, address_arg, timestamp), address_arg)

\* add_block(vec![])
AddBlock(timestamp) ==
    /\ opened
    /\ Cardinality(BlockKeys(db)) < MaxBlocks
    /\ Commit(add_block(tip, db, <<>>, timestamp), "add_block", <<>>)
    /\ UNCHANGED <<opened, walletsFile, genesis, steps>>

\* the keys of the map new_tx walks for this transfer
KeysFor(from, value, wallets) ==
    IF from \notin DOMAIN wallets THEN {}
    ELSE DOMAIN find_spendable_outputs(tip, db, hash_pub_key(wallets[from].public_key),
                                       value).unspent_outputs

SelectedIds(from, value) == KeysFor(from, value, fetch_wallets(walletsFile))

Sent(from, to, value, timestamp, made) ==
    IF made.status # "ok" THEN Panic("send", <<from, to, value>>, made.status)
    ELSE /\ Commit(add_block(Iterate(tip, db).tip, db, <<made.tx>>, timestamp),
                   "send", <<from, to, value>>)
         /\ UNCHANGED <<opened, walletsFile, genesis, steps>>

\* send(from, to, value): new_tx scans the chain through the handle, then add_block
Send(from, to, value, timestamp) ==
    /\ opened
    /\ Cardinality(BlockKeys(db)) < MaxBlocks
    /\ \E order \in Orders(SelectedIds(from, value)) :
          Sent(from, to, value, timestamp,
               new_tx(to, from, value, tip, db, walletsFile, order))

\* `for block in &mut blockchain`
IterateChain ==
    /\ opened
    /\ tip' = Iterate(tip, db).tip
    /\ lastOp' = Op("iterate", <<tip>>, Iterate(tip, db).blocks)
    /\ UNCHANGED <<db, opened, walletsFile, genesis, appendLog, steps>>

FindUtxo(owner) ==
    /\ opened
    /\ tip' = Iterate(tip, db).tip
    /\ lastOp' = Op("find_utxo", <<owner, tip>>, find_utxo(tip, db, owner))
    /\ UNCHANGED <<db, opened, walletsFile, genesis, appendLog, steps>>

BalanceAt(owner) ==
    /\ opened
    /\ tip' = Iterate(tip, db).tip
    /\ lastOp' = Op("balance_at", <<owner, tip>>, balance_at(tip, db, owner))
    /\ UNCHANGED <<db, opened, walletsFile, genesis, appendLog, steps>>

RemoveBlocks ==
    /\ opened
    /\ db' = remove_blocks(db)
    /\ genesis' = "none"
    /\ appendLog' = <<>>
    /\ lastOp' = Op("remove_blocks", <<>>, <<>>)
    /\ UNCHANGED <<tip, opened, walletsFile, steps>>

Next ==
    \/ \E k \in Keys : CreateWallet(k)
    \/ \E a \in Addresses \cup {EmptyBuf}, ts \in Timestamps : Open(a, ts)
    \/ \E ts \in Timestamps : AddBlock(ts)
    \/ \E from \in Addresses, to \in Addresses, value \in Values, ts \in Timestamps :
          Send(from, to, value, ts)
    \/ IterateChain
    \/ \E o \in Owners : FindUtxo(o)
    \/ \E o \in Owners : BalanceAt(o)
    \/ RemoveBlocks

Spec == Init /\ [][Next]_vars

-----------------------------------------------------------------------------
(* add_block step by step, for writers that share the store *)

Writers == {1, 2}

\* the stores that opening an empty store leaves
EmptyStore == [k \in {} |-> None]
OpenedStores ==
    {new(EmptyStore, a, ts)[1].db : a \in Addresses, ts \in Timestamps}

\* a writer that holds a handle on the store d and has not begun
Handle(d) ==
    [pc |-> "idle", tip |-> IF LastHash(d) # None THEN LastHash(d)[1] ELSE EmptyBuf,
     last_hash |-> None, new_block |-> None]

ChainRaceInit ==
    /\ db \in OpenedStores
    /\ writer = [w \in Writers |-> Handle(db)]
    /\ tip = EmptyBuf
    /\ opened = FALSE
    /\ walletsFile = None
    /\ genesis = "none"
    /\ appendLog = <<>>
    /\ lastOp = Op("init", <<>>, <<>>)
    /\ saver = NoSavers
    /\ codec = NoCodec
    /\ miner = NoMiner

\* what a step of a writer leaves alone besides the store
WriterFrame ==
    UNCHANGED <<tip, opened, walletsFile, genesis, appendLog, lastOp, saver, codec, miner>>

\* let last_hash = blocks.get(b"l")
ReadLastHash(w) ==
    /\ writer[w].pc = "idle"
    /\ writer' = [writer EXCEPT ![w].pc = "read", ![w].last_hash = LastHash(db)]
    /\ UNCHANGED db
    /\ WriterFrame

\* `if let Some(hash) = &new_block.hash`: go on to the inserts, or return
Mined(w, block) ==
    writer' = [writer EXCEPT ![w].pc = IF block.hash # None THEN "mined" ELSE "done",
                             ![w].new_block = Some(block)]

\* the transaction lists the writers append
Payloads == {<<>>} \cup {<<new_coinbase_tx(a, GENESIS_COINBASE)[1]>> : a \in Addresses}

\* let new_block = Block::new(data, last_hash)
MineNewBlock(w, timestamp, data) ==
    /\ writer[w].pc = "read"
    /\ Mined(w, NewBlock(timestamp, data, writer[w].last_hash))
    /\ UNCHANGED db
    /\ WriterFrame

\* blocks.insert(hash, serialize(&new_block))
StoreNewBlock(w) ==
    /\ writer[w].pc = "mined"
    /\ db' = InsertBlock(db, writer[w].new_block[1].hash[1], writer[w].new_block[1])
    /\ writer' = [writer EXCEPT ![w].pc = "stored"]
    /\ WriterFrame

\* blocks.insert(b"l", hash)
AdvanceMarker(w) ==
    /\ writer[w].pc = "stored"
    /\ db' = InsertMarker(db, writer[w].new_block[1].hash[1])
    /\ writer' = [writer EXCEPT ![w].pc = "marked"]
    /\ WriterFrame

\* self.tip = hash.clone()
AdvanceTip(w) ==
    /\ writer[w].pc = "marked"
    /\ writer' = [writer EXCEPT ![w].pc = "done", ![w].tip = writer[w].new_block[1].hash[1]]
    /\ UNCHANGED db
    /\ WriterFrame

ChainRaceNext ==
    \/ \E w \in Writers : ReadLastHash(w)
    \/ \E w \in Writers, ts \in Timestamps, data \in Payloads : MineNewBlock(w, ts, data)
    \/ \E w \in Writers : StoreNewBlock(w)
    \/ \E w \in Writers : AdvanceMarker(w)
    \/ \E w \in Writers : AdvanceTip(w)

ChainRaceSpec == ChainRaceInit /\ [][ChainRaceNext]_vars

-----------------------------------------------------------------------------
(* Blockchain::new step by step, followed by the steps of add_block *)

\* a writer that has not called Blockchain::new yet
Unopened == [pc |-> "start", tip |-> EmptyBuf, last_hash |-> None, new_block |-> None]

ChainStepsInit ==
    /\ db = EmptyStore
    /\ writer = [w \in Writers |-> Unopened]
    /\ tip = EmptyBuf
    /\ opened = FALSE
    /\ walletsFile = None
    /\ genesis = "none"
    /\ appendLog = <<>>
    /\ lastOp = Op("init", <<>>, <<>>)
    /\ saver = NoSavers
    /\ codec = NoCodec
    /\ miner = NoMiner

\* let last_hash = blocks.get(b"l"); `if let Some(lh)`: the handle takes lh as tip
Probed(w, last_hash) ==
    IF last_hash # None
    THEN writer' = [writer EXCEPT ![w].pc = "idle", ![w].tip = last_hash[1]]
    ELSE writer' = [writer EXCEPT ![w].pc = "probed"]

ProbeMarker(w) ==
    /\ writer[w].pc = "start"
    /\ Probed(w, LastHash(db))
    /\ UNCHANGED db
    /\ WriterFrame

\* the genesis block as built: stored next when it was mined, else the handle
\* is returned with an empty tip
GenesisMined(w, block) ==
    writer' = [writer EXCEPT ![w].pc = IF block.hash # None THEN "genesis_mined" ELSE "idle",
                             ![w].new_block = Some(block)]

\* Block::new(vec![new_coinbase_tx(address, GENESIS_COINBASE)], None); a panic of
\* new_coinbase_tx ends the call
GenesisBuilt(w, coinbase, timestamp) ==
    IF coinbase = None
    THEN writer' = [writer EXCEPT ![w].pc = "Address could not be decoded to base58!"]
    ELSE GenesisMined(w, NewBlock(timestamp, <<coinbase[1]>>, None))

MineGenesis(w, address_arg, timestamp) ==
    /\ writer[w].pc = "probed"
    /\ GenesisBuilt(w, new_coinbase_tx(address_arg, GENESIS_COINBASE), timestamp)
    /\ UNCHANGED db
    /\ WriterFrame

\* blocks.insert(hash, serialize(&genesis_block))
StoreGenesis(w) ==
    /\ writer[w].pc = "genesis_mined"
    /\ db' = InsertBlock(db, writer[w].new_block[1].hash[1], writer[w].new_block[1])
    /\ writer' = [writer EXCEPT ![w].pc = "genesis_stored"]
    /\ WriterFrame

\* blocks.insert(b"l", hash); hash.clone() is the tip of the handle returned
MarkGenesis(w) ==
    /\ writer[w].pc = "genesis_stored"
    /\ db' = InsertMarker(db, writer[w].new_block[1].hash[1])
    /\ writer' = [writer EXCEPT ![w].pc = "idle", ![w].tip = writer[w].new_block[1].hash[1]]
    /\ WriterFrame

ChainStepsNext ==
    \/ \E w \in Writers : ProbeMarker(w)
    \/ \E w \in Writers, a \in Addresses \cup {EmptyBuf}, ts \in Timestamps :
          MineGenesis(w, a, ts)
    \/ \E w \in Writers : StoreGenesis(w)
    \/ \E w \in Writers : MarkGenesis(w)
    \/ ChainRaceNext

ChainStepsSpec == ChainStepsInit /\ [][ChainStepsNext]_vars

-----------------------------------------------------------------------------
(* save_wallet step by step, for savers that share wallets.dat *)

Savers == {1, 2}

\* the keys of the wallets that earlier saves may have left in the file
EarlierKeys == {3, 4, 5}

RECURSIVE SaveAll(_, _)
SaveAll(file, keys) ==
    IF keys = {} THEN file
    ELSE LET k == CHOOSE x \in keys : TRUE
         IN  SaveAll(save_wallet(file, NewWallet(k)), keys \ {k})

\* the content of a file that File::create has truncated and nobody has written
ZeroBytes == {<<>>}

\* deserialize::<Wallets> fails on a file without bytes
Readable(file) == file = None \/ file[1] # ZeroBytes

WalletRaceInit ==
    /\ walletsFile \in {SaveAll(None, keys) : keys \in SUBSET EarlierKeys}
    /\ saver = [s \in Savers |->
                   [pc |-> "idle", found |-> None, wallets |-> None, seen |-> {}]]
    /\ db = EmptyStore
    /\ tip = EmptyBuf
    /\ opened = FALSE
    /\ genesis = "none"
    /\ appendLog = <<>>
    /\ lastOp = Op("init", <<>>, <<>>)
    /\ writer = NoWriters
    /\ codec = NoCodec
    /\ miner = NoMiner

\* what a step of a saver leaves alone besides the file
SaverFrame ==
    UNCHANGED <<db, tip, opened, genesis, appendLog, lastOp, writer, codec, miner>>

\* the savers that have returned
Returned == {s \in Savers : saver[s].pc = "done"}

\* let mut wallets = Self::fetch_wallets(); wallets.0.insert(wallet.address(), wallet)
Fetched(s, wallets, wallet) ==
    saver' = [saver EXCEPT ![s] = [pc |-> "fetched", found |-> Some(wallets),
                                   wallets |-> Some(Insert(wallets, address(wallet), wallet)),
                                   seen |-> Returned]]

FetchWallets(s) ==
    /\ saver[s].pc = "idle"
    /\ IF Readable(walletsFile)
       THEN Fetched(s, fetch_wallets(walletsFile), NewWallet(s))
       ELSE saver' = [saver EXCEPT ![s].pc = "Deserialization error!"]
    /\ UNCHANGED walletsFile
    /\ SaverFrame

\* File::create(WALLETS_FILE): the file exists and is empty
CreateFile(s) ==
    /\ saver[s].pc = "fetched"
    /\ walletsFile' = Some(ZeroBytes)
    /\ saver' = [saver EXCEPT ![s].pc = "created"]
    /\ SaverFrame

\* file.write_all(serialize(&wallets)): written from the start of the file; what
\* an earlier writer left behind it is trailing bytes that deserialize ignores
WriteFile(s) ==
    /\ saver[s].pc = "created"
    /\ walletsFile' = Some(SerializeWallets(saver[s].wallets[1]))
    /\ saver' = [saver EXCEPT ![s].pc = "done"]
    /\ SaverFrame

WalletRaceNext ==
    \/ \E s \in Savers : FetchWallets(s)
    \/ \E s \in Savers : CreateFile(s)
    \/ \E s \in Savers : WriteFile(s)

WalletRaceSpec == WalletRaceInit /\ [][WalletRaceNext]_vars

-----------------------------------------------------------------------------
(* The address round trip: Wallet::new, address, TXOutput::lock, is_locked_with *)

CodecInit ==
    /\ codec \in {[pc |-> "new", wallet |-> NewWallet(k), address |-> EmptyBuf,
                   output |-> [value |-> SUBSIDY, pub_key_hash |-> EmptyBuf],
                   result |-> FALSE] : k \in 0..MaxKey}
    /\ db = EmptyStore
    /\ tip = EmptyBuf
    /\ opened = FALSE
    /\ walletsFile = None
    /\ genesis = "none"
    /\ appendLog = <<>>
    /\ lastOp = Op("init", <<>>, <<>>)
    /\ writer = NoWriters
    /\ saver = NoSavers
    /\ miner = NoMiner

CodecFrame ==
    UNCHANGED <<db, tip, opened, walletsFile, genesis, appendLog, lastOp, writer, saver,
                miner>>

\* wallet.address()
TakeAddress ==
    /\ codec.pc = "new"
    /\ codec' = [codec EXCEPT !.pc = "addressed", !.address = address(codec.wallet)]
    /\ CodecFrame

\* txout.lock(address): the panics of lock end the round trip
Locked(lock) ==
    IF lock = None
    THEN codec' = [codec EXCEPT !.pc = "Address could not be decoded to base58!"]
    ELSE codec' = [codec EXCEPT !.pc = "locked", !.output.pub_key_hash = lock[1]]

LockOutput ==
    /\ codec.pc = "addressed"
    /\ Locked(LockHash(codec.address))
    /\ CodecFrame

\* txout.is_locked_with(&Wallet::hash_pub_key(&wallet.public_key))
TestLock ==
    /\ codec.pc = "locked"
    /\ codec' = [codec EXCEPT !.pc = "tested",
                              !.result = is_locked_with(codec.output,
                                                        hash_pub_key(codec.wallet.public_key))]
    /\ CodecFrame

CodecNext == TakeAddress \/ LockOutput \/ TestLock

CodecSpec == CodecInit /\ [][CodecNext]_vars

-----------------------------------------------------------------------------
(* Block::new step by step: the block as built, ProofOfWork::run, the sealing *)

\* the clock readings and the previous-hashes of the blocks that are mined
MineTimestamps == 0..(Pow2(SHA_BITS) - 1)
PreviousHashes == {None} \cup {LastHash(d) : d \in OpenedStores}

MineInit ==
    /\ miner \in {[pc |-> "new", block |-> Unmined(ts, data, prev), found |-> None] :
                     ts \in MineTimestamps, data \in Payloads, prev \in PreviousHashes}
    /\ db = EmptyStore
    /\ tip = EmptyBuf
    /\ opened = FALSE
    /\ walletsFile = None
    /\ genesis = "none"
    /\ appendLog = <<>>
    /\ lastOp = Op("init", <<>>, <<>>)
    /\ writer = NoWriters
    /\ saver = NoSavers
    /\ codec = NoCodec

MineFrame ==
    UNCHANGED <<db, tip, opened, walletsFile, genesis, appendLog, lastOp, writer, saver,
                codec>>

\* let pow = ProofOfWork::new(&block); pow.run()
RunPow ==
    /\ miner.pc = "new"
    /\ miner' = [miner EXCEPT !.pc = "ran", !.found = run(miner.block)]
    /\ MineFrame

\* `if let Some((nonce, hash)) = pow.run()`: the two assignments, then `block`
SealBlock ==
    /\ miner.pc = "ran"
    /\ miner' = [miner EXCEPT !.pc = "returned", !.block = Seal(miner.block, miner.found)]
    /\ MineFrame

MineNext == RunPow \/ SealBlock

MineSpec == MineInit /\ [][MineNext]_vars

-----------------------------------------------------------------------------
(* Vocabulary of the properties *)

\* the hash the tip marker holds, EmptyBuf when the marker is absent
Marker(d) == IF TipKey \in DOMAIN d THEN d[TipKey] ELSE EmptyBuf

\* the public-key hash an address locks outputs to
OwnerOf(addr) == LockHash(addr)[1]

\* the chain the tip marker names, newest block first, and its transactions
MarkedChain(d) == Iterate(Marker(d), d).blocks
ChainTxs(d) == Concat([i \in 1..Len(MarkedChain(d)) |-> MarkedChain(d)[i].transactions])

\* every (txid, index) that an input of a transaction of the chain references
Referenced(d) ==
    UNION {{<<ChainTxs(d)[t].vin[i].txid, ChainTxs(d)[t].vin[i].vout[1]>> :
               i \in {j \in 1..Len(ChainTxs(d)[t].vin) : ChainTxs(d)[t].vin[j].vout # None}} :
           t \in 1..Len(ChainTxs(d))}

\* the places <<t, i>> of the outputs locked to owner that no input references
UnspentPlaces(d, owner) ==
    UNION {{<<t, i>> : i \in {j \in 1..Len(ChainTxs(d)[t].vout) :
                                /\ ChainTxs(d)[t].vout[j].pub_key_hash = owner
                                /\ <<ChainTxs(d)[t].id, j - 1>> \notin Referenced(d)}} :
           t \in 1..Len(ChainTxs(d))}

\* the sequence outs holds exactly the outputs at these places, each once
HoldsExactly(outs, d, places) ==
    \A x \in Range(outs) \cup {ChainTxs(d)[p[1]].vout[p[2]] : p \in places} :
        Cardinality({i \in 1..Len(outs) : outs[i] = x})
        = Cardinality({p \in places : ChainTxs(d)[p[1]].vout[p[2]] = x})

CoinbaseCount(d) == Cardinality({t \in 1..Len(ChainTxs(d)) : is_coinbase(ChainTxs(d)[t])})

RECURSIVE SumOver(_, _, _)
SumOver(d, owners, t) ==
    IF owners = {} THEN 0
    ELSE LET o == CHOOSE x \in owners : TRUE
         IN  balance_at(t, d, o) + SumOver(d, owners \ {o}, t)

\* the appends that mined, the genesis block not counted
Appends == Len(appendLog) - (IF genesis = "mined" THEN 1 ELSE 0)

-----------------------------------------------------------------------------
(* C1 *)

\* C1 (as amended): an iteration that starts at the tip left by open and the
\* appends visits exactly N+1 blocks when the genesis block was mined and exactly
\* N when its mining failed, N being the number of appends that mined; when it
\* visits a block at all, the last one visited has no previous-hash.
C1_IterationVisitsMinedBlocks ==
    (lastOp.op = "iterate" /\ lastOp.args[1] = Marker(db)) =>
        /\ Len(lastOp.res) = Appends + (IF genesis = "mined" THEN 1 ELSE 0)
        /\ lastOp.res # <<>> => lastOp.res[Len(lastOp.res)].previous_block_hash = None

\* C1 (as stated): after open and appends the iteration visits exactly N+1 blocks.
C1_Original ==
    (lastOp.op = "iterate" /\ lastOp.args[1] = Marker(db) /\ genesis # "none") =>
        /\ Len(lastOp.res) = Appends + 1
        /\ lastOp.res[Len(lastOp.res)].previous_block_hash = None

C1_Witness ==
    /\ lastOp.op = "iterate" /\ lastOp.args[1] = Marker(db)
    /\ genesis = "mined" /\ Appends = 2 /\ Len(lastOp.res) = 3

-----------------------------------------------------------------------------
(* C2 *)

\* C2: on a chain that began with a mined genesis block, find_utxo(owner) through
\* a handle at the tip returns exactly the outputs locked to owner that no input
\* of the chain references, each once.
C2_FindUtxoIsUnspentSet ==
    (lastOp.op = "find_utxo" /\ lastOp.args[2] = Marker(db) /\ genesis = "mined") =>
        HoldsExactly(lastOp.res, db, UnspentPlaces(db, lastOp.args[1]))

-----------------------------------------------------------------------------
(* C3 *)

\* C3: a transfer of value between two different addresses, made through a handle
\* at the tip by a sender whose balance B is at least value, and whose block is
\* appended, raises balance(to) by exactly value and leaves balance(from) = B - value.
C3_TransferMovesValue ==
    [][(/\ lastOp'.op = "send" /\ lastOp'.res = "appended"
        /\ tip = Marker(db)
        /\ lastOp'.args[1] # lastOp'.args[2]
        /\ balance_at(Marker(db), db, OwnerOf(lastOp'.args[1])) >= lastOp'.args[3])
       =>
       (/\ balance_at(Marker(db'), db', OwnerOf(lastOp'.args[2]))
             = balance_at(Marker(db), db, OwnerOf(lastOp'.args[2])) + lastOp'.args[3]
        /\ balance_at(Marker(db'), db', OwnerOf(lastOp'.args[1]))
             = balance_at(Marker(db), db, OwnerOf(lastOp'.args[1])) - lastOp'.args[3])]_vars

-----------------------------------------------------------------------------
(* C4 *)

\* C4: the balances of all owners, taken at the tip marker, add up to the subsidy
\* times the number of coinbase transactions in the chain.
C4_BalancesSumToSubsidies ==
    SumOver(db, Owners, Marker(db)) = SUBSIDY * CoinbaseCount(db)

-----------------------------------------------------------------------------
(* C5 *)

\* C5: every stored block (each was mined by Block::new) passes validate, and the
\* digest validate recomputes from it is the digest mining stored as its hash.
C5_MinedBlocksValidate ==
    \A k \in BlockKeys(db) :
        /\ validate(DeserializeBlock(db[k]))
        /\ Sha256(prepare_data(DeserializeBlock(db[k]), DeserializeBlock(db[k]).nonce[1])) = k

-----------------------------------------------------------------------------
(* C6 *)

\* C6: find_utxo(owner) called twice in a row on the same handle returns the same
\* outputs both times.
C6_FindUtxoTwiceAgrees ==
    [][(/\ lastOp.op = "find_utxo" /\ lastOp'.op = "find_utxo"
        /\ lastOp'.args[1] = lastOp.args[1])
       => lastOp'.res = lastOp.res]_vars

-----------------------------------------------------------------------------
(* C7 *)

\* C7: an iteration, a UTXO scan or a balance query leaves the handle's tip where
\* it was.
C7_ScansKeepTip ==
    [][lastOp'.op \in {"iterate", "find_utxo", "balance_at"} => tip' = tip]_vars

-----------------------------------------------------------------------------
(* C8 *)

SenderKnown(from) == from \in DOMAIN fetch_wallets(walletsFile)

-----------------------------------------------------------------------------
(* C9 *)

\* C9: every key of the store other than the tip marker maps to a block whose
\* hash is present and is that key.
C9_KeysAreBlockHashes ==
    \A k \in BlockKeys(db) : DeserializeBlock(db[k]).hash = Some(k)

C9_Witness ==
    /\ Cardinality(BlockKeys(db)) = 3
    /\ \A k \in BlockKeys(db) : DeserializeBlock(db[k]).hash = Some(k)

-----------------------------------------------------------------------------
(* C10 *)

\* C10: each block an iteration yields has as previous-hash the hash of the block
\* yielded right after it; an iteration that starts at the tip yields the blocks
\* in reverse order of their appends, the first one persisted last, and that one
\* has no previous-hash.
C10_IterationOrder ==
    lastOp.op = "iterate" =>
        /\ \A i \in 1..(Len(lastOp.res) - 1) :
              lastOp.res[i].previous_block_hash = lastOp.res[i + 1].hash
        /\ lastOp.args[1] = Marker(db) =>
              /\ [i \in 1..Len(lastOp.res) |-> lastOp.res[i].hash[1]] = Reverse(appendLog)
              /\ lastOp.res # <<>> =>
                    lastOp.res[Len(lastOp.res)].previous_block_hash = None

C10_Witness ==
    /\ lastOp.op = "iterate" /\ lastOp.args[1] = Marker(db)
    /\ Len(lastOp.res) = 3
    /\ lastOp.res[1].hash[1] = appendLog[3]
    /\ lastOp.res[3].hash[1] = appendLog[1]

-----------------------------------------------------------------------------
(* C11 *)

\* C11: an open that finds no tip marker and whose mining succeeds leaves exactly
\* one block in the store; the block has no previous-hash, holds one coinbase
\* transaction that pays the subsidy to the given address, is keyed by its hash,
\* and the tip marker and the handle's tip are that hash.
C11_OpenCreatesGenesis ==
    [][(lastOp'.op = "new" /\ opened' /\ LastHash(db) = None /\ genesis' = "mined")
       =>
       (/\ Cardinality(BlockKeys(db')) = 1
        /\ BlockKeys(db') = {Marker(db')}
        /\ tip' = Marker(db')
        /\ LET block == DeserializeBlock(db'[Marker(db')])
           IN  /\ block.previous_block_hash = None
               /\ block.hash = Some(Marker(db'))
               /\ Len(block.transactions) = 1
               /\ is_coinbase(block.transactions[1])
               /\ block.transactions[1].vin[1].pub_key = GENESIS_COINBASE
               /\ block.transactions[1].vout
                     = <<[value |-> SUBSIDY, pub_key_hash |-> OwnerOf(lastOp'.args[1])]>>)]_vars

C11_Witness ==
    /\ lastOp.op = "new" /\ lastOp.args[2] = "init" /\ opened
    /\ genesis = "mined"
    /\ BlockKeys(db) = {tip}
    /\ DeserializeBlock(db[tip]).transactions[1].vout[1].pub_key_hash = OwnerOf(lastOp.args[1])

-----------------------------------------------------------------------------
(* C12 *)

\* C12: an open that finds the tip marker leaves the store as it is (no genesis
\* block, no block added or removed, the marker unchanged) and the tip of the
\* opened handle is the marker.
C12_ReopenKeepsStore ==
    [][(lastOp'.op = "new" /\ LastHash(db) # None)
       =>
       (/\ db' = db
        /\ opened'
        /\ tip' = db[TipKey])]_vars

C12_Witness ==
    /\ lastOp.op = "new" /\ opened
    /\ Cardinality(BlockKeys(db)) = 2
    /\ tip = Marker(db)
    /\ Len(appendLog) = 2

-----------------------------------------------------------------------------
(* C13 *)

\* C13: an append whose mining fails persists no block, leaves the tip marker as
\* it is and leaves the handle's tip as it was when add_block was entered (for
\* add_block inside send: as the scan of new_tx left it), so a later iteration
\* yields what it would have yielded without the append.
C13_FailedAppendIsNoOp ==
    [][(lastOp'.op \in {"add_block", "send"} /\ lastOp'.res = "unmined")
       =>
       (/\ db' = db
        /\ Marker(db') = Marker(db)
        /\ tip' = (IF lastOp'.op = "add_block" THEN tip ELSE Iterate(tip, db).tip)
        /\ lastOp'.op = "add_block" => Iterate(tip', db') = Iterate(tip, db))]_vars

C13_Witness ==
    /\ lastOp.op = "add_block" /\ lastOp.res = "unmined"
    /\ opened /\ tip # EmptyBuf /\ tip = Marker(db)
    /\ Len(MarkedChain(db)) >= 1

-----------------------------------------------------------------------------
(* C14 *)

\* C14 (as amended): erase_all removes every key of the blocks tree, the tip
\* marker key among them: after it the store holds no block and no tip marker.
C14_EraseRemovesMarkerToo ==
    [][lastOp'.op = "remove_blocks" => (BlockKeys(db') = {} /\ LastHash(db') = None)]_vars

\* C14 (as stated): erase_all removes every block and leaves the tip marker key
\* with the hash it held.
C14_Original ==
    [][lastOp'.op = "remove_blocks"
       => (/\ BlockKeys(db') = {}
           /\ LastHash(db) # None => LastHash(db') = LastHash(db))]_vars

C14_Witness ==
    /\ lastOp.op = "remove_blocks"
    /\ DOMAIN db = {}
    /\ tip # EmptyBuf

-----------------------------------------------------------------------------
(* C15 *)

\* C15: the iteration that follows erase_all on the same handle yields no block
\* and raises no error; and any iteration from a tip that names no stored block
\* yields no block, raises no error and leaves the tip where it was.
C15_DanglingTipYieldsNothing ==
    [][(/\ lastOp'.op = "iterate"
        /\ lastOp.op = "remove_blocks" \/ tip \notin DOMAIN db)
       =>
       (/\ lastOp'.res = <<>>
        /\ opened'
        /\ tip \notin DOMAIN db => tip' = tip)]_vars

C15_Witness ==
    /\ lastOp.op = "iterate" /\ lastOp.res = <<>>
    /\ lastOp.args[1] # EmptyBuf
    /\ DOMAIN db = {}
    /\ opened

-----------------------------------------------------------------------------
(* C16 *)

\* C16 (as amended): an open that follows erase_all finds no tip marker, so it
\* builds a genesis block as on an empty store: when the mining succeeds the
\* store holds that one block and iteration on the reopened handle yields it,
\* when it fails the store stays empty and iteration yields nothing.
C16_ReopenAfterEraseStartsOver ==
    [][(lastOp.op = "remove_blocks" /\ lastOp'.op = "new" /\ opened')
       =>
       (/\ LastHash(db) = None
        /\ Cardinality(BlockKeys(db')) = (IF genesis' = "mined" THEN 1 ELSE 0)
        /\ tip' = Marker(db')
        /\ Len(Iterate(tip', db').blocks) = Cardinality(BlockKeys(db')))]_vars

\* C16 (as stated): an open that follows erase_all builds no genesis block, and
\* iteration on the reopened handle yields no block.
C16_Original ==
    [][(lastOp.op = "remove_blocks" /\ lastOp'.op = "new" /\ opened')
       =>
       (/\ BlockKeys(db') = {}
        /\ Iterate(tip', db').blocks = <<>>)]_vars

C16_Witness ==
    /\ lastOp.op = "new" /\ lastOp.args[2] = "remove_blocks" /\ opened
    /\ genesis = "mined"
    /\ Len(Iterate(tip, db).blocks) = 1

-----------------------------------------------------------------------------
(* C17 *)

\* the block writer w built, and its hash
BlockOf(w) == writer[w].new_block[1]
HashOf(w) == BlockOf(w).hash[1]

\* writers a and b have both returned from add_block, having read the same last
\* hash and mined two different blocks
Raced(a, b) ==
    /\ a # b
    /\ writer[a].pc = "done" /\ writer[b].pc = "done"
    /\ writer[a].new_block # None /\ writer[b].new_block # None
    /\ BlockOf(a).hash # None /\ BlockOf(b).hash # None
    /\ writer[a].last_hash = writer[b].last_hash
    /\ HashOf(a) # HashOf(b)

\* the hashes of the blocks reached from the tip marker
MarkedHashes == {MarkedChain(db)[i].hash[1] : i \in 1..Len(MarkedChain(db))}

\* the length of the chain that ends in the hash a writer read
LengthAt(last_hash) ==
    IF last_hash = None THEN 0 ELSE Len(Iterate(last_hash[1], db).blocks)

\* C17: when two writers have interleaved their add_block calls so that both read
\* the same last hash and both mined, both blocks are persisted with that hash as
\* previous-hash, exactly one of them is reached from the tip marker, and the
\* chain from the marker is one block longer than the chain they read, not two.
C17_RacingAppendsLoseOne ==
    \A a \in Writers, b \in Writers :
        Raced(a, b) =>
            /\ {HashOf(a), HashOf(b)} \subseteq BlockKeys(db)
            /\ DeserializeBlock(db[HashOf(a)]).previous_block_hash = writer[a].last_hash
            /\ DeserializeBlock(db[HashOf(b)]).previous_block_hash = writer[a].last_hash
            /\ Cardinality(MarkedHashes \cap {HashOf(a), HashOf(b)}) = 1
            /\ Len(MarkedChain(db)) = LengthAt(writer[a].last_hash) + 1

C17_Witness ==
    /\ Raced(1, 2)
    /\ writer[1].last_hash # None
    /\ Cardinality(BlockKeys(db)) = 3
    /\ Len(MarkedChain(db)) = 2
    /\ writer[1].tip # writer[2].tip

-----------------------------------------------------------------------------
(* C18 *)

\* the addresses in the file
Registered == DOMAIN fetch_wallets(walletsFile)

SavedBy(s) == address(NewWallet(s))

\* C18: when a save has begun after another save returned (the two run one after
\* the other) and has returned too, the file holds the wallets of both and every
\* wallet the first one found in the file.
C18_SavesInTurnKeepAll ==
    \A s \in Savers, t \in Savers :
        (s # t /\ saver[s].pc = "done" /\ t \in saver[s].seen) =>
            Registered = DOMAIN saver[t].found[1] \cup {SavedBy(s), SavedBy(t)}

\* two interleaved saves have both returned and the file holds the wallet of only
\* one of them
C18_Witness ==
    /\ \A s \in Savers : saver[s].pc = "done" /\ saver[s].seen = {}
    /\ Readable(walletsFile)
    /\ Cardinality(Registered \cap {SavedBy(s) : s \in Savers}) = 1
    /\ Cardinality(Registered) = 3

-----------------------------------------------------------------------------
(* C19 *)

\* C19: for every wallet, an output locked with the wallet's address is locked
\* with the hash of the wallet's public key: lock does not fail, the decoded
\* address is the version byte, the hash and four checksum bytes, and
\* is_locked_with on the hash gives true.
C19_AddressRoundTrip ==
    /\ codec.pc \in {"new", "addressed", "locked", "tested"}
    /\ codec.pc \in {"locked", "tested"} =>
          /\ Base58Decode(codec.address) # None
          /\ Len(Base58Decode(codec.address)[1])
                = 1 + Len(hash_pub_key(codec.wallet.public_key)) + CHECKSUM_LEN
          /\ codec.output.pub_key_hash = hash_pub_key(codec.wallet.public_key)
    /\ codec.pc = "tested" => codec.result = TRUE

\* the round trip of a wallet whose public-key hash ends in a zero byte; the
\* zero version byte is the leading '1' of the address
C19_Witness ==
    /\ codec.pc = "tested" /\ codec.result = TRUE
    /\ codec.output.pub_key_hash = <<125, 0>>
    /\ codec.output.pub_key_hash = hash_pub_key(codec.wallet.public_key)
    /\ codec.address[1] = Alphabet[1]

-----------------------------------------------------------------------------
(* C20 *)

\* the number of inputs of the chain that reference an output
ReferenceCount(d) ==
    SumSeq([t \in 1..Len(ChainTxs(d)) |->
               Cardinality({i \in 1..Len(ChainTxs(d)[t].vin) :
                               ChainTxs(d)[t].vin[i].vout # None})])

\* C20: no (transaction id, output index) pair is referenced by more than one
\* input of the chain, neither twice inside one transaction nor by two
\* transactions: the referencing inputs are as many as the pairs they reference.
C20_NoDoubleSpend ==
    ReferenceCount(db) = Cardinality(Referenced(db))

-----------------------------------------------------------------------------
(* C21 *)

\* the transaction of the newest block of the marked chain
TransferOf(d) == MarkedChain(d)[1].transactions[1]

\* the (txid, index) pair each input names, input by input
InputRefs(tx) == [i \in 1..Len(tx.vin) |-> <<tx.vin[i].txid, tx.vin[i].vout[1]>>]

\* the output of the chain that a (txid, index) pair names
RefOutput(d, ref) ==
    ChainTxs(d)[CHOOSE t \in 1..Len(ChainTxs(d)) : ChainTxs(d)[t].id = ref[1]].vout[ref[2] + 1]

RECURSIVE SumRefs(_, _)
SumRefs(d, refs) ==
    IF refs = {} THEN 0
    ELSE LET r == CHOOSE x \in refs : TRUE
         IN  RefOutput(d, r).value + SumRefs(d, refs \ {r})

\* the total the inputs carry, each input counted
Accumulated(d, tx) == SumSeq([i \in 1..Len(tx.vin) |-> RefOutput(d, InputRefs(tx)[i]).value])

OutputTotal(tx) == SumSeq([i \in 1..Len(tx.vout) |-> tx.vout[i].value])

ChangeShape(tx, from, value, accumulated) ==
    IF accumulated > value
    THEN Len(tx.vout) = 2
         /\ tx.vout[2] = [value |-> accumulated - value, pub_key_hash |-> from]
    ELSE Len(tx.vout) = 1

\* C21: the transaction of an appended transfer has one input per selected
\* (txid, index) pair (no pair is named by two inputs), its first output credits
\* `to` with exactly `value`, it has a second output crediting `from` with
\* accumulated - value if and only if accumulated > value, and its output values
\* add up to the values of the outputs of the chain that its inputs reference.
C21_TransferShape ==
    [][(lastOp'.op = "send" /\ lastOp'.res = "appended") =>
       (/\ Len(TransferOf(db').vin) = Cardinality(Range(InputRefs(TransferOf(db'))))
        /\ TransferOf(db').vout[1] = [value |-> lastOp'.args[3],
                                      pub_key_hash |-> OwnerOf(lastOp'.args[2])]
        /\ ChangeShape(TransferOf(db'), OwnerOf(lastOp'.args[1]), lastOp'.args[3],
                       Accumulated(db, TransferOf(db')))
        /\ OutputTotal(TransferOf(db'))
             = SumRefs(db, Range(InputRefs(TransferOf(db')))))]_vars

-----------------------------------------------------------------------------
(* C22 *)

\* what the outputs at these places of the chain are worth together
RECURSIVE PlacesTotal(_, _)
PlacesTotal(d, places) ==
    IF places = {} THEN 0
    ELSE LET p == CHOOSE x \in places : TRUE
         IN  ChainTxs(d)[p[1]].vout[p[2]].value + PlacesTotal(d, places \ {p})

UnspentTotal(d, owner) == PlacesTotal(d, UnspentPlaces(d, owner))

\* the (txid, index) pairs of owner's unspent outputs
UnspentRefs(d, owner) == {<<ChainTxs(d)[p[1]].id, p[2] - 1>> : p \in UnspentPlaces(d, owner)}

\* the values of the outputs the indices recorded for one txid name
IndexValues(d, id, indices) ==
    SumSeq([i \in 1..Len(indices) |-> RefOutput(d, <<id, indices[i]>>).value])

\* what the selection txid -> indices is worth, every recorded index counted
RECURSIVE SelectionTotal(_, _, _)
SelectionTotal(d, selection, ids) ==
    IF ids = {} THEN 0
    ELSE LET id == CHOOSE x \in ids : TRUE
         IN  IndexValues(d, id, selection[id]) + SelectionTotal(d, selection, ids \ {id})

\* the (txid, index) pairs of a selection, and how many indices it records
SelectionRefs(selection) ==
    UNION {{<<id, selection[id][i]>> : i \in 1..Len(selection[id])} : id \in DOMAIN selection}

RECURSIVE SelectionSize(_, _)
SelectionSize(selection, ids) ==
    IF ids = {} THEN 0
    ELSE LET id == CHOOSE x \in ids : TRUE
         IN  Len(selection[id]) + SelectionSize(selection, ids \ {id})

\* some output recorded last for its txid, taken away, leaves less than target
StopsAtTarget(d, found, target) ==
    found.all > 0 =>
        \E id \in DOMAIN found.unspent_outputs :
            found.all - RefOutput(d, <<id, found.unspent_outputs[id][Len(found.unspent_outputs[id])]>>).value
                < target

GreedyOverUnspent(d, owner, target, found) ==
    /\ SelectionRefs(found.unspent_outputs) \subseteq UnspentRefs(d, owner)
    /\ SelectionSize(found.unspent_outputs, DOMAIN found.unspent_outputs)
         = Cardinality(SelectionRefs(found.unspent_outputs))
    /\ found.all = SelectionTotal(d, found.unspent_outputs, DOMAIN found.unspent_outputs)
    /\ UnspentTotal(d, owner) >= target => found.all >= target
    /\ StopsAtTarget(d, found, target)
    /\ UnspentTotal(d, owner) < target => found.all = UnspentTotal(d, owner)

\* C22: on a chain that began with a mined genesis block, through a handle at the
\* tip, find_spendable_outputs(owner, target) selects unspent outputs of owner, each
\* at most once; the returned total is the sum of the values of the selected
\* outputs; it reaches target whenever owner's unspent outputs are worth at least
\* target; without the output selected last it is below target; and when the
\* unspent outputs are worth less than target it is their whole worth.
C22_GreedySelection ==
    genesis = "mined" =>
        \A owner \in Owners, target \in Values :
            GreedyOverUnspent(db, owner, target,
                              find_spendable_outputs(Marker(db), db, owner, target))

-----------------------------------------------------------------------------
(* C23 *)

\* the block as run serializes it: Block::new has not set its hash and nonce yet
Content(block) == [block EXCEPT !.hash = None, !.nonce = None]

\* the digest run computes for a nonce, as an integer
DigestInt(block, nonce) == HashInt(Sha256(prepare_data(Content(block), nonce)))

\* C23: when run succeeds, the nonce it returns is the smallest one, counting up
\* from 0, whose digest is strictly below the target, the hash it returns is
\* exactly that digest, and every smaller nonce has a digest at or above the target.
C23_SmallestNonce ==
    (miner.pc \in {"ran", "returned"} /\ miner.found # None) =>
        /\ miner.found[1][1] \in 0..U64_MAX
        /\ miner.found[1][2] = Sha256(prepare_data(Content(miner.block), miner.found[1][1]))
        /\ DigestInt(miner.block, miner.found[1][1]) < Target
        /\ \A smaller \in 0..(miner.found[1][1] - 1) :
              DigestInt(miner.block, smaller) >= Target

C23_Witness ==
    /\ miner.pc = "ran" /\ miner.found # None
    /\ miner.found[1][1] = 1
    /\ DigestInt(miner.block, 0) >= Target
    /\ miner.block.transactions # <<>>

-----------------------------------------------------------------------------
(* C24 *)

\* C24: run tries every nonce from 0 up to and including the largest 64-bit value
\* and returns nothing only when no nonce of that whole range has a digest below
\* the target.
C24_ExhaustsWholeRange ==
    (miner.pc \in {"ran", "returned"} /\ miner.found = None) =>
        \A nonce \in 0..U64_MAX : DigestInt(miner.block, nonce) >= Target

-----------------------------------------------------------------------------
(* C25 *)

\* the block a writer holds was built by Block::new
Built(w) == writer[w].new_block # None

\* C25: a block that Block::new returned has its hash and its nonce both absent
\* or both present, and every block that open or append wrote to the store has
\* both present: a block whose mining failed is never written.
C25_HashAndNonceArePaired ==
    /\ \A w \in Writers :
          Built(w) => (BlockOf(w).hash = None <=> BlockOf(w).nonce = None)
    /\ \A k \in BlockKeys(db) :
          /\ DeserializeBlock(db[k]).hash = Some(k)
          /\ DeserializeBlock(db[k]).nonce # None
    /\ \A w \in Writers :
          (Built(w) /\ BlockOf(w).hash = None) =>
              /\ writer[w].pc \in {"idle", "read", "done"}
              /\ \A k \in BlockKeys(db) : DeserializeBlock(db[k]) # BlockOf(w)

\* an append whose mining failed has returned, next to a chain that holds blocks
C25_Witness ==
    \E w \in Writers :
        /\ Built(w) /\ writer[w].pc = "done"
        /\ BlockOf(w).hash = None /\ BlockOf(w).nonce = None
        /\ BlockOf(w).previous_block_hash # None
        /\ Cardinality(BlockKeys(db)) >= 1

-----------------------------------------------------------------------------
(* C26 *)

\* following previous-hashes from `hash` meets stored blocks only and ends at a
\* block without previous-hash
RECURSIVE WalksToGenesis(_, _, _)
WalksToGenesis(d, hash, fuel) ==
    /\ hash \in BlockKeys(d)
    /\ \/ DeserializeBlock(d[hash]).previous_block_hash = None
       \/ /\ fuel > 0
          /\ WalksToGenesis(d, DeserializeBlock(d[hash]).previous_block_hash[1], fuel - 1)

\* C26: without erase_all, at every step of open and of append the tip marker,
\* when present, names a block that is in the store, and following the
\* previous-hashes from it leads through stored blocks to a genesis block.
C26_MarkerNamesStoredBlock ==
    TipKey \in DOMAIN db => WalksToGenesis(db, db[TipKey], Cardinality(BlockKeys(db)))

\* an append has written its block and not yet advanced the marker, which names
\* the block before it
C26_Witness ==
    \E w \in Writers :
        /\ writer[w].pc = "stored"
        /\ HashOf(w) \in BlockKeys(db)
        /\ TipKey \in DOMAIN db
        /\ Some(db[TipKey]) = BlockOf(w).previous_block_hash
        /\ Len(MarkedChain(db)) >= 2

=============================================================================
